---- MODULE Spec2Model ----
(***************************************************************************)
(* A model of lumiwealth_tradier: the transport core (base.py) and the two *)
(* endpoint modules (account.py, quotes.py).                               *)
(*                                                                         *)
(* A call of a public operation is followed through three positions:       *)
(*   idle    -> the operation builds its parameters and issues its HTTP    *)
(*              request (or fails / returns before issuing one),           *)
(*   waiting -> the broker answers with a status and a body, and the rest  *)
(*              of the operation runs on it,                               *)
(*   done    -> the result (a value or an exception) is with the caller.   *)
(* `call` is the call of one caller; `peer` is the call of a second caller *)
(* that shares the session (it stays idle unless SpecShared runs it).      *)
(*                                                                         *)
(* Python values are tagged records [t |-> tag, v |-> payload]; strings are *)
(* sequences of one-character strings, dicts are insertion-ordered         *)
(* sequences of <<key, value>> pairs.                                      *)
(***************************************************************************)
EXTENDS Integers, Sequences, FiniteSets, TLC

VARIABLES session, call, contacted, peer

vars == <<session, call, contacted, peer>>

---------------------------------------------------------------------------
(* Bounds of the model.                                                    *)

\* order identifiers held by the broker are 1..MaxOrderId
MaxOrderId == 2
\* the clock read by get_historical_quotes ranges over FirstDay..FirstDay+MaxDays
MaxDays == 7

---------------------------------------------------------------------------
(* Python values.                                                          *)

None == [t |-> "None"]
Str(s) == [t |-> "str", v |-> s]
Bool(b) == [t |-> "bool", v |-> b]
IntV(n) == [t |-> "int", v |-> n]
\* a datetime.date / datetime.datetime at midnight, by its proleptic ordinal
Date(n) == [t |-> "date", v |-> n]
List(s) == [t |-> "list", v |-> s]
Dict(s) == [t |-> "dict", v |-> s]
\* a pandas DataFrame: its columns and its rows (each row a Dict)
Frame(cols, rows) == [t |-> "frame", cols |-> cols, rows |-> rows]

\* Python truth value testing (bool(x)), as used by `if x:` / `if not x:`
Truthy(x) ==
    CASE x.t = "None" -> FALSE
      [] x.t = "str" -> x.v # <<>>
      [] x.t = "bool" -> x.v
      [] x.t = "int" -> x.v # 0
      [] x.t = "list" -> x.v # <<>>
      [] x.t = "dict" -> x.v # <<>>
      [] OTHER -> TRUE

\* the outcome of a piece of code: a returned value or a raised exception
Return(x) == [kind |-> "return", v |-> x]
Raise(e) == [kind |-> "raise", exc |-> e]

HasKey(d, k) == \E i \in DOMAIN d : d[i][1] = k
Lookup(d, k) == d[CHOOSE i \in DOMAIN d : d[i][1] = k][2]
\* d[k] = x on a dict: replaces the value of an existing key, else appends
SetItem(d, k, x) ==
    IF HasKey(d, k)
    THEN [i \in DOMAIN d |-> IF d[i][1] = k THEN <<k, x>> ELSE d[i]]
    ELSE Append(d, <<k, x>>)

\* x[k] with a string key k: KeyError on a dict without k, TypeError on
\* anything that is not a dict (None, str, list, int, bool)
GetItem(x, k) ==
    IF x.t = "dict"
    THEN IF HasKey(x.v, k) THEN Return(Lookup(x.v, k)) ELSE Raise("KeyError")
    ELSE Raise("TypeError")

---------------------------------------------------------------------------
(* Strings.                                                                *)

UpperCase == <<"A","B","C","D","E","F","G","H","I","J","K","L","M",
               "N","O","P","Q","R","S","T","U","V","W","X","Y","Z">>
LowerCase == <<"a","b","c","d","e","f","g","h","i","j","k","l","m",
               "n","o","p","q","r","s","t","u","v","w","x","y","z">>

LowerChar(c) ==
    IF \E i \in DOMAIN UpperCase : UpperCase[i] = c
    THEN LowerCase[CHOOSE i \in DOMAIN UpperCase : UpperCase[i] = c]
    ELSE c
UpperChar(c) ==
    IF \E i \in DOMAIN LowerCase : LowerCase[i] = c
    THEN UpperCase[CHOOSE i \in DOMAIN LowerCase : LowerCase[i] = c]
    ELSE c

\* lower() that leaves the text as it is
LowerKeep(s) == s

\* str.lower() and str.upper()
Lower(s) == [i \in DOMAIN s |-> LowerChar(s[i])]
Upper(s) == [i \in DOMAIN s |-> UpperChar(s[i])]

Digits == <<"0","1","2","3","4","5","6","7","8","9">>
DigitChar(n) == Digits[n + 1]
IsDigit(c) == \E i \in DOMAIN Digits : Digits[i] = c
DigitVal(c) == (CHOOSE i \in DOMAIN Digits : Digits[i] = c) - 1

---------------------------------------------------------------------------
(* Dates: datetime's proleptic Gregorian ordinal arithmetic, strftime and  *)
(* strptime with the format '%Y-%m-%d'.                                    *)

IsLeap(y) == y % 4 = 0 /\ (y % 100 # 0 \/ y % 400 = 0)
DaysInMonth(y, m) ==
    IF m = 2 THEN (IF IsLeap(y) THEN 29 ELSE 28)
    ELSE IF m \in {4, 6, 9, 11} THEN 30 ELSE 31
DaysBeforeYear(y) ==
    (y - 1) * 365 + ((y - 1) \div 4) - ((y - 1) \div 100) + ((y - 1) \div 400)
RECURSIVE DaysBeforeMonth(_, _)
DaysBeforeMonth(y, m) ==
    IF m = 1 THEN 0 ELSE DaysBeforeMonth(y, m - 1) + DaysInMonth(y, m - 1)
\* date(y, m, d).toordinal()
Ymd2Ord(y, m, d) == DaysBeforeYear(y) + DaysBeforeMonth(y, m) + d
\* date.fromordinal(n) as <<year, month, day>>
Ord2Ymd(n) ==
    LET n0 == n - 1
        n400 == n0 \div 146097
        r400 == n0 % 146097
        n100 == r400 \div 36524
        r100 == r400 % 36524
        n4 == r100 \div 1461
        r4 == r100 % 1461
        n1 == r4 \div 365
        r1 == r4 % 365
        year == n400 * 400 + 1 + n100 * 100 + n4 * 4 + n1
        m0 == CHOOSE m \in 1..12 :
                  /\ DaysBeforeMonth(year, m) <= r1
                  /\ r1 < DaysBeforeMonth(year, m) + DaysInMonth(year, m)
    IN  IF n1 = 4 \/ n100 = 4
        THEN <<year - 1, 12, 31>>
        ELSE <<year, m0, r1 - DaysBeforeMonth(year, m0) + 1>>
\* date.weekday(): Monday is 0, Sunday is 6
Weekday(n) == (n + 6) % 7

\* date.strftime('%Y-%m-%d')
Strftime(n) ==
    LET ymd == Ord2Ymd(n)
        y == ymd[1]
        m == ymd[2]
        d == ymd[3]
    IN  <<DigitChar(y \div 1000), DigitChar((y \div 100) % 10),
          DigitChar((y \div 10) % 10), DigitChar(y % 10), "-",
          DigitChar(m \div 10), DigitChar(m % 10), "-",
          DigitChar(d \div 10), DigitChar(d % 10)>>

\* datetime.strptime(x, '%Y-%m-%d'): TypeError unless x is a str, ValueError
\* unless the text is a date in that format
Strptime(x) ==
    IF x.t # "str" THEN Raise("TypeError")
    ELSE LET s == x.v IN
         IF /\ Len(s) = 10
            /\ \A i \in {1, 2, 3, 4, 6, 7, 9, 10} : IsDigit(s[i])
            /\ s[5] = "-" /\ s[8] = "-"
         THEN LET y == DigitVal(s[1]) * 1000 + DigitVal(s[2]) * 100
                         + DigitVal(s[3]) * 10 + DigitVal(s[4])
                  m == DigitVal(s[6]) * 10 + DigitVal(s[7])
                  d == DigitVal(s[9]) * 10 + DigitVal(s[10])
              IN  IF y >= 1 /\ m \in 1..12 /\ d >= 1 /\ d <= DaysInMonth(y, m)
                  THEN Return(Date(Ymd2Ord(y, m, d)))
                  ELSE Raise("ValueError")
         ELSE Raise("ValueError")

---------------------------------------------------------------------------
(* The transport core: base.py.                                            *)

TRADIER_LIVE_URL == "https://api.tradier.com"
TRADIER_SANDBOX_URL == "https://sandbox.tradier.com"

\* the only status request() and send() accept
StatusOk == 200

AccountNumbers == {"VA1", "VA2"}
AuthTokens == {"tokA"}

\* TradierApiBase.__init__
NewSession(account_number, auth_token, is_paper) ==
    [is_paper |-> is_paper,
     ACCOUNT_NUMBER |-> account_number,
     AUTH_TOKEN |-> auth_token,
     REQUESTS_HEADERS |->
        Dict(<< <<"Authorization", <<"Bearer ", auth_token>> >>,
                <<"Accept", <<"application/json">> >> >>)]

\* base_url with the flag ignored
base_url_live(s) == TRADIER_LIVE_URL

\* TradierApiBase.base_url
base_url(s) == IF s.is_paper THEN TRADIER_SANDBOX_URL ELSE TRADIER_LIVE_URL

RECURSIVE Update(_, _)
\* dict.update: the pairs of e set in d, in order
Update(d, e) ==
    IF e = <<>> THEN d
    ELSE Update(SetItem(d, Head(e)[1], Head(e)[2]), Tail(e))

\* request() laying the caller's headers over the defaults instead of
\* replacing them
GetRequestMerged(s, endpoint, params, headers) ==
    [method |-> "GET",
     url |-> <<base_url(s)>> \o endpoint,
     payload |-> IF ~Truthy(params) THEN Dict(<<>>) ELSE params,
     headers |-> IF ~Truthy(headers) THEN s.REQUESTS_HEADERS
                 ELSE Dict(Update(s.REQUESTS_HEADERS.v, headers.v))]

\* The HTTP request that request() hands to requests.get: url, params, headers
GetRequest(s, endpoint, params, headers) ==
    [method |-> "GET",
     url |-> <<base_url(s)>> \o endpoint,
     payload |-> IF ~Truthy(params) THEN Dict(<<>>) ELSE params,
     headers |-> IF ~Truthy(headers) THEN s.REQUESTS_HEADERS ELSE headers]

\* The HTTP request that send() hands to requests.post: url, data, headers
PostRequest(s, endpoint, data, headers) ==
    [method |-> "POST",
     url |-> <<base_url(s)>> \o endpoint,
     payload |-> data,
     headers |-> IF ~Truthy(headers) THEN s.REQUESTS_HEADERS ELSE headers]

\* What request() and send() do with the response r: the status check, then
\* r.json(), which raises JSONDecodeError on a body that is not JSON
ResponseResult(r) ==
    IF r.status # StatusOk THEN Raise("TradierApiError")
    ELSE IF ~r.json THEN Raise("JSONDecodeError")
    ELSE Return(r.body)

---------------------------------------------------------------------------
(* pandas, as far as the operations use it.                                *)

IsDictList(x) == x.t = "list" /\ \A i \in DOMAIN x.v : x.v[i].t = "dict"
\* the union of the keys of the rows
Columns(rows) ==
    UNION {{rows[i].v[j][1] : j \in DOMAIN rows[i].v} : i \in DOMAIN rows}

\* pd.json_normalize(x): a list of objects gives one row each, an object one
\* row; anything else (None, a str, a number) is refused
json_normalize(x) ==
    IF IsDictList(x) THEN Return(Frame(Columns(x.v), x.v))
    ELSE IF x.t = "dict" THEN Return(Frame(Columns(<<x>>), <<x>>))
    ELSE Raise("NotImplementedError")

\* pd.DataFrame(x): None and empty containers give an empty frame, a list of
\* objects one row each; an object of scalars or a scalar is refused
DataFrame(x) ==
    IF x.t = "None" THEN Return(Frame({}, <<>>))
    ELSE IF IsDictList(x) THEN Return(Frame(Columns(x.v), x.v))
    ELSE IF x.t = "dict" /\ x.v = <<>> THEN Return(Frame({}, <<>>))
    ELSE Raise("ValueError")

InList(x, l) == \E i \in DOMAIN l : l[i] = x
SymbolOf(row) == Lookup(row.v, "symbol")

---------------------------------------------------------------------------
(* The account module: account.py.                                         *)

NullText == <<"n","u","l","l">>
NoOrdersText == <<"Y","o","u"," ","h","a","v","e"," ","n","o"," ","c","u","r","r","e","n","t"," ","o","r","d","e","r","s",".">>

\* Account.__init__
NewAccount(account_number, auth_token, is_paper) ==
    [f \in DOMAIN NewSession(account_number, auth_token, is_paper) \cup
           {"PROFILE_ENDPOINT", "ACCOUNT_BALANCE_ENDPOINT",
            "ACCOUNT_GAINLOSS_ENDPOINT", "ACCOUNT_HISTORY_ENDPOINT",
            "ACCOUNT_POSITIONS_ENDPOINT", "ACCOUNT_INDIVIDUAL_ORDER_ENDPOINT",
            "ORDERS_ENDPOINT"} |->
       CASE f = "PROFILE_ENDPOINT" -> <<"v1", "user", "profile">>
         [] f = "ACCOUNT_BALANCE_ENDPOINT" ->
                <<"v1", "accounts", account_number, "balances">>
         [] f = "ACCOUNT_GAINLOSS_ENDPOINT" ->
                <<"v1", "accounts", account_number, "gainloss">>
         [] f = "ACCOUNT_HISTORY_ENDPOINT" ->
                <<"v1", "accounts", account_number, "history">>
         [] f = "ACCOUNT_POSITIONS_ENDPOINT" ->
                <<"v1", "accounts", account_number, "positions">>
         [] f = "ACCOUNT_INDIVIDUAL_ORDER_ENDPOINT" ->
                <<"v1", "accounts", "{account_id}", "orders", "{order_id}">>
         [] f = "ORDERS_ENDPOINT" ->
                <<"v1", "accounts", account_number, "orders">>
         [] OTHER -> NewSession(account_number, auth_token, is_paper)[f]]

\* data[k1][k2]: the first exception raised wins
GetItem2(data, k1, k2) ==
    LET x == GetItem(data, k1) IN
    IF x.kind = "raise" THEN x ELSE GetItem(x.v, k2)
\* pd.json_normalize / pd.DataFrame on the outcome of a subscript
NormalizeOf(o) == IF o.kind = "raise" THEN o ELSE json_normalize(o.v)
DataFrameOf(o) == IF o.kind = "raise" THEN o ELSE DataFrame(o.v)

\* get_user_profile, get_account_balance, get_gainloss after request()
get_user_profile_rest(data) == NormalizeOf(GetItem(data, "profile"))
get_account_balance_rest(data) == NormalizeOf(GetItem(data, "balances"))
get_gainloss_rest(data) ==
    NormalizeOf(GetItem2(data, "gainloss", "closed_position"))

valid_activity_types ==
    <<<<"t","r","a","d","e">>,
      <<"o","p","t","i","o","n">>,
      <<"a","c","h">>,
      <<"w","i","r","e">>,
      <<"d","i","v","i","d","e","n","d">>,
      <<"f","e","e">>,
      <<"t","a","x">>,
      <<"j","o","u","r","n","a","l">>,
      <<"c","h","e","c","k">>,
      <<"t","r","a","n","s","f","e","r">>,
      <<"a","d","j","u","s","t","m","e","n","t">>,
      <<"i","n","t","e","r","e","s","t">>>>

\* get_history up to its request(): the validation of activity_type and the
\* params it builds; an outcome when it raises, else the params
get_history_params(a) ==
    LET p0 == <<>>
        bad == Truthy(a.activity_type)
                 /\ ~InList(Lower(a.activity_type.v), valid_activity_types)
        p1 == IF Truthy(a.activity_type)
              THEN SetItem(p0, "type", Str(Lower(a.activity_type.v))) ELSE p0
        p2 == IF Truthy(a.symbol)
              THEN SetItem(p1, "symbol", Str(Upper(a.symbol.v))) ELSE p1
        DateParam(p, key, d) ==
            IF Truthy(d)
            THEN SetItem(p, key, IF d.t = "date" THEN Str(Strftime(d.v)) ELSE d)
            ELSE p
        p3 == DateParam(p2, "start", a.start_date)
        p4 == DateParam(p3, "end", a.end_date)
        p5 == IF Truthy(a.limit) THEN SetItem(p4, "limit", a.limit) ELSE p4
    IN  IF bad THEN Raise("ValueError") ELSE Return(Dict(p5))

get_history_rest(data) == NormalizeOf(GetItem2(data, "history", "event"))

\* get_orders after request(): order_id is not used
get_orders_rest(order_id, data) ==
    LET orders == GetItem(data, "orders") IN
    IF orders.kind = "raise" THEN orders
    ELSE IF orders.v = Str(NullText) THEN Return(Str(NoOrdersText))
    ELSE NormalizeOf(GetItem(orders.v, "order"))

\* the length threshold of the equity / option filters of get_positions
SymbolLen == 5

\* the filters of get_positions without `options = False` after the equity
\* filter: with both flags set both length filters are applied
FilterPositionsBoth(df, symbols, equities, options) ==
    LET NoColumn == "symbol" \notin df.cols
        InSymbols(r) == InList(SymbolOf(r), symbols.v)
        Short(r) == Len(SymbolOf(r).v) < SymbolLen
        Long(r) == Len(SymbolOf(r).v) > SymbolLen
        r1 == IF Truthy(symbols) THEN SelectSeq(df.rows, InSymbols) ELSE df.rows
        r2 == IF equities THEN SelectSeq(r1, Short) ELSE r1
        r3 == IF options THEN SelectSeq(r2, Long) ELSE r2
    IN  IF Truthy(symbols) /\ NoColumn THEN Raise("UndefinedVariableError")
        ELSE IF (equities \/ options) /\ NoColumn THEN Raise("KeyError")
        ELSE Return(Frame(df.cols, r3))

\* get_positions: the three filters on the positions frame
FilterPositions(df, symbols, equities, options) ==
    LET NoColumn == "symbol" \notin df.cols
        InSymbols(r) == InList(SymbolOf(r), symbols.v)
        Short(r) == Len(SymbolOf(r).v) < SymbolLen
        Long(r) == Len(SymbolOf(r).v) > SymbolLen
        r1 == IF Truthy(symbols) THEN SelectSeq(df.rows, InSymbols) ELSE df.rows
        r2 == IF equities THEN SelectSeq(r1, Short) ELSE r1
        options2 == IF equities THEN FALSE ELSE options
        r3 == IF options2 THEN SelectSeq(r2, Long) ELSE r2
    IN  IF Truthy(symbols) /\ NoColumn THEN Raise("UndefinedVariableError")
        ELSE IF (equities \/ options) /\ NoColumn THEN Raise("KeyError")
        ELSE Return(Frame(df.cols, r3))

\* get_positions after request()
get_positions_rest(a, data) ==
    LET df == DataFrameOf(GetItem2(data, "positions", "position")) IN
    IF Truthy(data)
    THEN IF df.kind = "raise" THEN df
         ELSE FilterPositions(df.v, a.symbols, a.equities, a.options)
    ELSE Return(None)

---------------------------------------------------------------------------
(* The market data module: quotes.py.                                      *)

NeedTermText == <<"N","e","e","d"," ","t","h","a","t"," ","s","e","a","r","c","h"," ","t","e","r","m"," ","y","o">>
NothingFoundText == <<"N","o","t","h","i","n","g"," ","f","o","u","n","d">>
FalseText == <<"f","a","l","s","e">>

\* Quotes.__init__
NewQuotes(account_number, auth_token, is_paper) ==
    [f \in DOMAIN NewSession(account_number, auth_token, is_paper) \cup
           {"QUOTES_ENDPOINT", "QUOTES_HISTORICAL_ENDPOINT",
            "QUOTES_SEARCH_ENDPOINT", "QUOTES_TIMESALES_ENDPOINT"} |->
       CASE f = "QUOTES_ENDPOINT" -> <<"v1", "markets", "quotes">>
         [] f = "QUOTES_HISTORICAL_ENDPOINT" -> <<"v1", "markets", "history">>
         [] f = "QUOTES_SEARCH_ENDPOINT" -> <<"v1", "markets", "search">>
         [] f = "QUOTES_TIMESALES_ENDPOINT" -> <<"v1", "markets", "timesales">>
         [] OTHER -> NewSession(account_number, auth_token, is_paper)[f]]

\* last_monday counting the days with isoweekday() (Monday is 1)
last_monday_iso(input_date) == input_date - (Weekday(input_date) + 1)

\* the helper of get_historical_quotes: the Monday of input_date's week
last_monday(input_date) == input_date - Weekday(input_date)

\* get_historical_quotes up to its request(): the defaults of end_date and
\* start_date and the params; now is the date datetime.today() gives
get_historical_quotes_params(a, now) ==
    LET end_date == IF ~Truthy(a.end_date) THEN Str(Strftime(now)) ELSE a.end_date
        tmp == Strptime(end_date)
        start_date == IF ~Truthy(a.start_date)
                      THEN Str(Strftime(last_monday(tmp.v.v)))
                      ELSE a.start_date
    IN  IF ~Truthy(a.start_date) /\ tmp.kind = "raise" THEN tmp
        ELSE Return(Dict(<< <<"symbol", a.symbol>>, <<"interval", a.interval>>,
                            <<"start", start_date>>, <<"end", end_date>> >>))

get_historical_quotes_rest(data) ==
    DataFrameOf(GetItem2(data, "history", "day"))

get_quote_day_params(a) ==
    Dict(<< <<"symbols", a.symbol>>, <<"greeks", Str(FalseText)>> >>)

\* float(df_quote['last']): the column must exist and hold one value
LastPrice(df) ==
    IF "last" \notin df.cols THEN Raise("KeyError")
    ELSE IF Len(df.rows) # 1 THEN Raise("TypeError")
    ELSE LET x == Lookup(df.rows[1].v, "last") IN
         IF x.t = "float" THEN Return(x)
         ELSE IF /\ x.t = "str" /\ x.v # <<>>
                 /\ \A i \in DOMAIN x.v : IsDigit(x.v[i]) \/ x.v[i] = "."
         THEN Return([t |-> "float", v |-> x.v])
         ELSE Raise("ValueError")

get_quote_day_rest(a, data) ==
    LET df_quote == NormalizeOf(GetItem2(data, "quotes", "quote")) IN
    IF df_quote.kind = "raise" THEN df_quote
    ELSE IF a.last_price THEN LastPrice(df_quote.v) ELSE df_quote

get_timesales_params(a) ==
    LET p0 == << <<"symbol", a.symbol>> >>
        p1 == IF Truthy(a.start_time) THEN SetItem(p0, "start", a.start_time) ELSE p0
        p2 == IF Truthy(a.end_time) THEN SetItem(p1, "end", a.end_time) ELSE p1
    IN  Dict(p2)

get_timesales_rest(data) == NormalizeOf(GetItem2(data, "series", "data"))

\* search_companies without the test of the query
search_companies_params_unchecked(a) ==
    [kind |-> "request",
     params |-> Dict(<< <<"q", a.query>>, <<"indexes", Str(FalseText)>> >>)]

\* search_companies up to its request(): the early return on an empty query,
\* else the params
search_companies_params(a) ==
    IF ~Truthy(a.query) THEN [kind |-> "return", v |-> Str(NeedTermText)]
    ELSE [kind |-> "request",
          params |-> Dict(<< <<"q", a.query>>, <<"indexes", Str(FalseText)>> >>)]

\* search_companies after request()
search_companies_rest(data) ==
    LET securities == GetItem(data, "securities") IN
    IF securities.kind = "raise" THEN securities
    ELSE IF ~Truthy(securities.v) THEN Return(Str(NothingFoundText))
    ELSE DataFrameOf(GetItem(securities.v, "security"))

---------------------------------------------------------------------------
(* The inputs: what callers pass and what the broker answers.              *)

\* the positions a response may list are at most MaxPositions long
MaxPositions == 2

AAPL == Str(<<"A","A","P","L">>)
GOOGL == Str(<<"G","O","O","G","L">>)
CWENA == Str(<<"C","W","E","N","/","A">>)
LMTC == Str(<<"L","M","T","2","4","0","1","1","9","C","0","0","2","6","0","0","0","0">>)
PositionSymbols == <<AAPL, GOOGL, CWENA, LMTC>>

Nth(S, i) == CHOOSE x \in S : Cardinality({y \in S : y < x}) = i - 1
\* the elements of base at the indices S, in base's order
Sub(base, S) == [i \in 1..Cardinality(S) |-> base[Nth(S, i)]]

PositionRow(sym) == Dict(<< <<"symbol", sym>>, <<"quantity", IntV(10)>> >>)
PositionLists ==
    {List([i \in DOMAIN l |-> PositionRow(l[i])]) :
        l \in {Sub(PositionSymbols, S) :
                 S \in {T \in SUBSET DOMAIN PositionSymbols :
                           Cardinality(T) <= MaxPositions}}}

OrderRow(id) == Dict(<< <<"id", IntV(id)>>, <<"symbol", AAPL>> >>)
OrderLists ==
    {List([i \in 1..Cardinality(S) |-> OrderRow(Nth(S, i))]) :
        S \in SUBSET (1..MaxOrderId)}

QuoteRow == Dict(<< <<"symbol", AAPL>>, <<"last", Str(<<"1","5",".","7","3">>)>> >>)
EventRow == Dict(<< <<"amount", IntV(1)>>, <<"type", Str(<<"t","r","a","d","e">>)>> >>)
ProfileRow == Dict(<< <<"id", Str(<<"i","d","-","s","b","-","2","r","0","1">>)>> >>)

\* The bodies a broker may answer at a documented key path k1.k2: the path
\* absent, null or the text "null" at either level, or one of the payloads
Bodies2(k1, k2, payloads) ==
    {None, Dict(<<>>),
     Dict(<< <<k1, None>> >>), Dict(<< <<k1, Str(NullText)>> >>),
     Dict(<< <<k1, Dict(<<>>)>> >>),
     Dict(<< <<k1, Dict(<< <<k2, None>> >>)>> >>),
     Dict(<< <<k1, Dict(<< <<k2, Str(NullText)>> >>)>> >>)}
    \cup {Dict(<< <<k1, Dict(<< <<k2, x>> >>)>> >>) : x \in payloads}
Bodies1(k1, payloads) ==
    {None, Dict(<<>>), Dict(<< <<k1, None>> >>), Dict(<< <<k1, Str(NullText)>> >>)}
    \cup {Dict(<< <<k1, x>> >>) : x \in payloads}

BodiesOf(op) ==
    CASE op \in {"request", "send", "get_user_profile"} ->
            Bodies1("profile", {ProfileRow})
      [] op = "get_account_balance" -> Bodies1("balances", {ProfileRow})
      [] op = "get_gainloss" ->
            Bodies2("gainloss", "closed_position", {List(<<EventRow>>)})
      [] op = "get_history" ->
            Bodies2("history", "event", {EventRow, List(<<EventRow, EventRow>>)})
      [] op \in {"get_order", "get_orders"} ->
            Bodies2("orders", "order", OrderLists \cup {OrderRow(1)})
      [] op = "get_positions" ->
            Bodies2("positions", "position", PositionLists \cup {PositionRow(AAPL)})
      [] op = "get_historical_quotes" ->
            Bodies2("history", "day", {List(<<EventRow>>)})
      [] op = "get_quote_day" ->
            Bodies2("quotes", "quote", {QuoteRow, List(<<QuoteRow, QuoteRow>>)})
      [] op = "get_timesales" ->
            Bodies2("series", "data", {List(<<EventRow>>)})
      [] op = "search_companies" ->
            Bodies2("securities", "security", {List(<<QuoteRow>>)})

Statuses == {200, 201, 204, 299, 300, 404, 500}

\* The responses to a call of op: under status 200 every body of the
\* endpoint, and under every status some JSON body and a body that is not JSON
Responses(op) ==
    {[received |-> TRUE, status |-> StatusOk, json |-> TRUE, body |-> b] :
        b \in BodiesOf(op)}
    \cup {[received |-> TRUE, status |-> st, json |-> j,
           body |-> IF j THEN Dict(<< <<"profile", ProfileRow>> >>) ELSE None] :
             st \in Statuses, j \in BOOLEAN}

OverrideHeaders ==
    {None, Dict(<<>>), Dict(<< <<"Accept", <<"application/xml">> >> >>)}

RequestArgs ==
    [endpoint : {<<"v1", "user", "profile">>},
     params : {None, Dict(<<>>), Dict(<< <<"symbols", AAPL>> >>)},
     headers : OverrideHeaders]

SendArgs ==
    [endpoint : {<<"v1", "accounts", "VA1", "orders">>},
     data : {Dict(<< <<"class", Str(<<"e","q","u","i","t","y">>)>> >>)},
     headers : OverrideHeaders]

ActivityInputs ==
    {None, Str(<<>>), Str(<<"t","r","a","d","e">>), Str(<<"T","R","A","D","E">>), Str(<<"T","r","a","d","e">>), Str(<<"I","N","T","E","R","E","S","T">>),
     Str(<<"f","e","e">>), Str(<<"b","o","g","u","s">>), Str(<<"B","O","G","U","S">>), Str(<<"t","r","a","d","e","s">>)}

FirstDay == Ymd2Ord(2024, 2, 26)

HistoryArgs ==
    {[start_date |-> o[1], end_date |-> o[2], limit |-> o[3], symbol |-> o[4],
      activity_type |-> t] :
        t \in ActivityInputs,
        o \in {<<None, None, None, None>>,
               <<Date(FirstDay + 3), Str(<<"2","0","2","4","-","0","3","-","0","1">>), IntV(25), Str(<<"a","a","p","l">>)>>,
               <<Str(<<"2","0","2","4","-","0","2","-","0","1">>), None, IntV(0), Str(<<>>)>>}}

OrderIds == {IntV(i) : i \in 1..MaxOrderId}
OrderArgs == [order_id : OrderIds]
OrdersArgs == [order_id : OrderIds \cup {None}]

PositionsArgs ==
    [symbols : {Bool(FALSE), List(<<AAPL, LMTC>>), List(<<GOOGL>>)},
     equities : BOOLEAN, options : BOOLEAN]

Clock == FirstDay..(FirstDay + MaxDays)

HistoricalQuotesArgs ==
    [symbol : {AAPL}, interval : {Str(<<"d","a","i","l","y">>)},
     start_date : {Bool(FALSE), Str(<<"2","0","2","4","-","0","2","-","2","0">>)},
     end_date : {Bool(FALSE), Str(<<"2","0","2","4","-","0","6","-","1","2">>), Str(<<"2","0","2","4","-","0","6","-","1","0">>),
                 Str(<<"2","0","2","4","-","0","3","-","0","3">>), Str(<<"2","0","2","5","-","0","1","-","0","1">>), Str(<<"0","6","/","1","2","/","2","0","2","4">>),
                 Date(FirstDay + 2)}]

QuoteDayArgs == [symbol : {AAPL}, last_price : BOOLEAN]

TimesalesArgs ==
    [symbol : {AAPL},
     start_time : {Bool(FALSE), Str(<<"2","0","2","3","-","0","9","-","2","7"," ","0","9",":","4","5">>)},
     end_time : {Bool(FALSE), Str(<<"2","0","2","3","-","0","9","-","2","7"," ","1","4",":","0","0">>)}]

SearchArgs == [query : {Str(<<>>), Str(<<"a","p","p","l","e">>), Str(<<"z","z">>)}]

---------------------------------------------------------------------------
(* The state machine.                                                      *)

NoResponse == [received |-> FALSE]
Pending == [kind |-> "pending"]
Idle == [pc |-> "idle"]

\* a step of an operation up to its blocking HTTP call
Issue(req) == [kind |-> "request", req |-> req]

\* request() and send() with the headers they used kept on the session
\* (self.REQUESTS_HEADERS = headers)
SessionAfterStored(s, req) ==
    [s EXCEPT !.account.REQUESTS_HEADERS = req.headers,
              !.quotes.REQUESTS_HEADERS = req.headers]

\* The session after a call has issued req: no operation assigns to self
SessionAfter(s, req) == s

\* The record of a call after `start`: waiting for the answer to the request
\* it issued, or done when it returned or raised before issuing one
CallAfter(op, args, now, start) ==
    IF start.kind = "request"
    THEN [pc |-> "waiting", op |-> op, args |-> args, now |-> now,
          sent |-> <<start.req>>, resp |-> NoResponse, out |-> Pending]
    ELSE [pc |-> "done", op |-> op, args |-> args, now |-> now,
          sent |-> <<>>, resp |-> NoResponse, out |-> start]

\* The call after `start`: waiting for the answer to the request it issued,
\* or done when it returned or raised before issuing one
Begin(op, args, now, start) ==
    /\ call.pc = "idle"
    /\ call' = CallAfter(op, args, now, start)
    /\ contacted' = IF start.kind = "request"
                    THEN contacted \cup {start.req.url[1]}
                    ELSE contacted
    /\ session' = IF start.kind = "request"
                  THEN SessionAfter(session, start.req)
                  ELSE session
    /\ UNCHANGED peer

Init ==
    /\ session \in {[account |-> NewAccount(n, t, p), quotes |-> NewQuotes(n, t, p)] :
                       n \in AccountNumbers, t \in AuthTokens, p \in BOOLEAN}
    /\ call = Idle
    /\ contacted = {}
    /\ peer = Idle

\* TradierApiBase.request, called directly
request ==
    \E a \in RequestArgs :
        Begin("request", a, 0,
              Issue(GetRequest(session.account, a.endpoint, a.params, a.headers)))

\* TradierApiBase.send, called directly
send ==
    \E a \in SendArgs :
        Begin("send", a, 0,
              Issue(PostRequest(session.account, a.endpoint, a.data, a.headers)))

NoArgs == [none |-> TRUE]

get_user_profile ==
    Begin("get_user_profile", NoArgs, 0,
          Issue(GetRequest(session.account, session.account.PROFILE_ENDPOINT,
                           None, None)))

get_account_balance ==
    Begin("get_account_balance", NoArgs, 0,
          Issue(GetRequest(session.account,
                           session.account.ACCOUNT_BALANCE_ENDPOINT, None, None)))

get_gainloss ==
    Begin("get_gainloss", NoArgs, 0,
          Issue(GetRequest(session.account,
                           session.account.ACCOUNT_GAINLOSS_ENDPOINT, None, None)))

\* get_history with the validation of activity_type left out
get_history_start_unchecked(self, a) ==
    Issue(GetRequest(self, self.ACCOUNT_HISTORY_ENDPOINT, None, None))

\* get_history up to the answer of its request
get_history_start(self, a) ==
    LET p == get_history_params(a) IN
    IF p.kind = "raise" THEN p
    ELSE Issue(GetRequest(self, self.ACCOUNT_HISTORY_ENDPOINT, p.v, None))

get_history ==
    \E a \in HistoryArgs :
        Begin("get_history", a, 0, get_history_start(session.account, a))

\* get_orders up to the answer of its request: order_id is not used
get_orders_start(self, order_id) ==
    Issue(GetRequest(self, self.ORDERS_ENDPOINT, None, None))

\* get_order: get_orders(order_id=order_id)
get_order_start(self, order_id) == get_orders_start(self, order_id)

get_order ==
    \E a \in OrderArgs :
        Begin("get_order", a, 0, get_order_start(session.account, a.order_id))

get_orders ==
    \E a \in OrdersArgs :
        Begin("get_orders", a, 0, get_orders_start(session.account, a.order_id))

get_positions ==
    \E a \in PositionsArgs :
        Begin("get_positions", a, 0,
              Issue(GetRequest(session.account,
                               session.account.ACCOUNT_POSITIONS_ENDPOINT,
                               None, None)))

\* get_historical_quotes up to the answer of its request
get_historical_quotes_start(self, a, now) ==
    LET p == get_historical_quotes_params(a, now) IN
    IF p.kind = "raise" THEN p
    ELSE Issue(GetRequest(self, self.QUOTES_HISTORICAL_ENDPOINT, p.v, None))

\* the clock is read only when end_date is omitted
get_historical_quotes ==
    \E a \in HistoricalQuotesArgs :
        \E now \in IF Truthy(a.end_date) THEN {0} ELSE Clock :
            Begin("get_historical_quotes", a, now,
                  get_historical_quotes_start(session.quotes, a, now))

get_quote_day ==
    \E a \in QuoteDayArgs :
        Begin("get_quote_day", a, 0,
              Issue(GetRequest(session.quotes, session.quotes.QUOTES_ENDPOINT,
                               get_quote_day_params(a), None)))

get_timesales ==
    \E a \in TimesalesArgs :
        Begin("get_timesales", a, 0,
              Issue(GetRequest(session.quotes,
                               session.quotes.QUOTES_TIMESALES_ENDPOINT,
                               get_timesales_params(a), None)))

\* search_companies up to the answer of its request
search_companies_start(self, a) ==
    LET p == search_companies_params(a) IN
    IF p.kind = "request"
    THEN Issue(GetRequest(self, self.QUOTES_SEARCH_ENDPOINT, p.params, None))
    ELSE p

search_companies ==
    \E a \in SearchArgs :
        Begin("search_companies", a, 0, search_companies_start(session.quotes, a))

\* What the operation in flight does with the parsed JSON it got back
Rest(c, data) ==
    CASE c.op \in {"request", "send"} -> Return(data)
      [] c.op = "get_user_profile" -> get_user_profile_rest(data)
      [] c.op = "get_account_balance" -> get_account_balance_rest(data)
      [] c.op = "get_gainloss" -> get_gainloss_rest(data)
      [] c.op = "get_history" -> get_history_rest(data)
      [] c.op \in {"get_order", "get_orders"} ->
            get_orders_rest(c.args.order_id, data)
      [] c.op = "get_positions" -> get_positions_rest(c.args, data)
      [] c.op = "get_historical_quotes" -> get_historical_quotes_rest(data)
      [] c.op = "get_quote_day" -> get_quote_day_rest(c.args, data)
      [] c.op = "get_timesales" -> get_timesales_rest(data)
      [] c.op = "search_companies" -> search_companies_rest(data)

\* Complete with one retry: a failed first response is answered by issuing
\* the request again instead of raising
CompleteRetry(c, r) ==
    LET o == ResponseResult(r) IN
    IF o.kind = "raise" /\ Len(c.sent) < 2
    THEN [c EXCEPT !.sent = Append(@, @[1])]
    ELSE [c EXCEPT !.pc = "done", !.resp = r,
                   !.out = IF o.kind = "raise" THEN o ELSE Rest(c, o.v)]

\* The call c once the response r to its request is in: request() / send()
\* check it and the operation finishes on the parsed JSON
Complete(c, r) ==
    LET o == ResponseResult(r) IN
    [c EXCEPT !.pc = "done", !.resp = r,
              !.out = IF o.kind = "raise" THEN o ELSE Rest(c, o.v)]

\* the broker answers the request in flight
Respond ==
    /\ call.pc = "waiting"
    /\ \E r \in Responses(call.op) : call' = Complete(call, r)
    /\ UNCHANGED <<session, contacted, peer>>

\* the caller has the result; the session is free for the next call
Finish ==
    /\ call.pc = "done"
    /\ call' = Idle
    /\ UNCHANGED <<session, contacted, peer>>

Next ==
    \/ request
    \/ send
    \/ get_user_profile
    \/ get_account_balance
    \/ get_gainloss
    \/ get_history
    \/ get_order
    \/ get_orders
    \/ get_positions
    \/ get_historical_quotes
    \/ get_quote_day
    \/ get_timesales
    \/ search_companies
    \/ Respond
    \/ Finish

Spec == Init /\ [][Next]_vars

---------------------------------------------------------------------------
(* A second caller on the same session, concurrent with the first: its     *)
(* calls run the same code and interleave with the first caller's at the   *)
(* HTTP round trips.                                                       *)

PeerRequestArgs ==
    [endpoint : {<<"v1", "user", "profile">>}, params : {None},
     headers : OverrideHeaders]

PeerHistoryArgs ==
    {a \in HistoryArgs : a.activity_type \in {None, Str(<<"T","R","A","D","E">>)}
                            /\ a.limit \in {None, IntV(25)}}

\* the answers the second caller gets: a JSON body under 200, and a failure
PeerResponses ==
    {r \in Responses("request") :
        r.json /\ r.status \in {StatusOk, 500} /\ r.body.t = "dict"
               /\ HasKey(r.body.v, "profile")
               /\ Lookup(r.body.v, "profile") = ProfileRow}

\* The second caller's call after `start`
PeerBegin(op, args, start) ==
    /\ peer.pc = "idle"
    /\ peer' = CallAfter(op, args, 0, start)
    /\ contacted' = IF start.kind = "request"
                    THEN contacted \cup {start.req.url[1]}
                    ELSE contacted
    /\ session' = IF start.kind = "request"
                  THEN SessionAfter(session, start.req)
                  ELSE session
    /\ UNCHANGED call

peer_request ==
    \E a \in PeerRequestArgs :
        PeerBegin("request", a,
                  Issue(GetRequest(session.account, a.endpoint, a.params, a.headers)))

peer_get_history ==
    \E a \in PeerHistoryArgs :
        PeerBegin("get_history", a, get_history_start(session.account, a))

PeerRespond ==
    /\ peer.pc = "waiting"
    /\ \E r \in PeerResponses : peer' = Complete(peer, r)
    /\ UNCHANGED <<session, contacted, call>>

PeerFinish ==
    /\ peer.pc = "done"
    /\ peer' = Idle
    /\ UNCHANGED <<session, contacted, call>>

NextShared ==
    \/ Next
    \/ peer_request
    \/ peer_get_history
    \/ PeerRespond
    \/ PeerFinish

SpecShared == Init /\ [][NextShared]_vars

---------------------------------------------------------------------------
(* Vocabulary of the properties.                                           *)

Started == call.pc # "idle"
Done == call.pc = "done"
\* the call is over and its request was answered
Answered == call.pc = "done" /\ call.resp.received
\* answered with status 200 and a JSON body
AnsweredJson == Answered /\ call.resp.status = StatusOk /\ call.resp.json
Is2xx(st) == st >= 200 /\ st <= 299
\* a parameter of the (only) request of the call
Param(k) == Lookup(call.sent[1].payload.v, k)
HasParam(k) == HasKey(call.sent[1].payload.v, k)
Origin(req) == req.url[1]

SameLetter(c, d) ==
    c = d \/ \E i \in DOMAIN UpperCase : {c, d} = {UpperCase[i], LowerCase[i]}
\* s and t are the same text up to letter case
EqIgnoreCase(s, t) ==
    Len(s) = Len(t) /\ \A i \in DOMAIN s : SameLetter(s[i], t[i])
IsLowerText(s) == \A i \in DOMAIN s : \A j \in DOMAIN UpperCase : s[i] # UpperCase[j]
\* the enumerated activity types that s spells in some letter case
TypesSpelled(s) ==
    {i \in DOMAIN valid_activity_types : EqIgnoreCase(s, valid_activity_types[i])}

---------------------------------------------------------------------------
(* C1: request and send fail with ApiError exactly when the status is not  *)
(* 2xx: a non-2xx status never yields a value, and a 2xx status with a     *)
(* JSON body yields the parsed body.                                       *)
C1_ApiErrorExactlyOnNon2xx ==
    (Answered /\ call.op \in {"request", "send"}) =>
        /\ ~Is2xx(call.resp.status) => call.out = Raise("TradierApiError")
        /\ (Is2xx(call.resp.status) /\ call.resp.json) =>
               call.out = Return(call.resp.body)
        /\ (Is2xx(call.resp.status) /\ ~call.resp.json) =>
               call.out.kind = "raise"

(* C2: every request of a session goes to the sandbox origin when the      *)
(* session is a paper session and to the production origin otherwise,      *)
(* whatever the account, the operation and the calls made before.          *)
C2_OriginFollowsPaperFlag ==
    LET origin == IF session.account.is_paper
                  THEN "https://sandbox.tradier.com"
                  ELSE "https://api.tradier.com"
    IN  /\ session.quotes.is_paper = session.account.is_paper
        /\ contacted \subseteq {origin}
        /\ Started => \A i \in DOMAIN call.sent : Origin(call.sent[i]) = origin

C2_PaperSessionHasCalled ==
    /\ session.account.is_paper
    /\ call.pc = "waiting" /\ call.op = "send"
    /\ contacted = {"https://sandbox.tradier.com"}

(* C3 as stated: a get_history call given an activity_type that is not one *)
(* of the twelve values in any letter case raises ValueError, and has      *)
(* issued no request.                                                      *)
C3_InvalidTypeRaisesBeforeRequest ==
    (Started /\ call.op = "get_history" /\ call.args.activity_type.t = "str"
        /\ TypesSpelled(call.args.activity_type.v) = {}) =>
            Done /\ call.out = Raise("ValueError") /\ call.sent = <<>>

(* C3 amended: the same for every NON-EMPTY activity_type; the empty       *)
(* string is treated as no filter and the request is issued without 'type'.*)
C3_NonEmptyInvalidTypeRaisesBeforeRequest ==
    (Started /\ call.op = "get_history" /\ call.args.activity_type.t = "str"
        /\ TypesSpelled(call.args.activity_type.v) = {}) =>
            IF call.args.activity_type.v # <<>>
            THEN Done /\ call.out = Raise("ValueError") /\ call.sent = <<>>
            ELSE call.sent # <<>> /\ ~HasParam("type")

C3_BogusRejected ==
    /\ Done /\ call.op = "get_history"
    /\ call.args.activity_type.t = "str" /\ Len(call.args.activity_type.v) = 5
    /\ TypesSpelled(call.args.activity_type.v) = {}
    /\ call.args.limit = IntV(25)
    /\ call.out = Raise("ValueError") /\ call.sent = <<>>

IsEmptyMarker(x) == x = None \/ x = Str(NullText)
\* the key path k1.k2 of the JSON object b is absent, null or the text "null"
EmptyAtPath(b, k1, k2) ==
    /\ b.t = "dict"
    /\ \/ ~HasKey(b.v, k1)
       \/ IsEmptyMarker(Lookup(b.v, k1))
       \/ /\ Lookup(b.v, k1).t = "dict"
          /\ \/ ~HasKey(Lookup(b.v, k1).v, k2)
             \/ IsEmptyMarker(Lookup(Lookup(b.v, k1).v, k2))
\* the documented key path of each operation that reads one
KeyPath(op) ==
    CASE op \in {"get_order", "get_orders"} -> <<"orders", "order">>
      [] op = "get_positions" -> <<"positions", "position">>
      [] op = "get_history" -> <<"history", "event">>
      [] op = "get_gainloss" -> <<"gainloss", "closed_position">>
      [] op = "search_companies" -> <<"securities", "security">>
      [] op = "get_quote_day" -> <<"quotes", "quote">>
      [] op = "get_historical_quotes" -> <<"history", "day">>
      [] op = "get_timesales" -> <<"series", "data">>
PathOps ==
    {"get_order", "get_orders", "get_positions", "get_history", "get_gainloss",
     "search_companies", "get_quote_day", "get_historical_quotes", "get_timesales"}
\* the results by which the code tells its caller "no data": the two
\* messages, and the None of get_positions on an empty response
IsEmptyResult(o) ==
    o \in {Return(Str(NoOrdersText)), Return(Str(NothingFoundText)), Return(None)}

(* C4: an operation that finds its documented key path absent, null or     *)
(* "null" signals the no-data condition: it returns no record set and      *)
(* fails with no other error.                                              *)
C4_EmptyMarkerSignalsEmptyResult ==
    (AnsweredJson /\ call.op \in PathOps
        /\ EmptyAtPath(call.resp.body, KeyPath(call.op)[1], KeyPath(call.op)[2])) =>
            IsEmptyResult(call.out)

(* C5: the result of get_order(order_id) holds no order with another       *)
(* identifier, whatever orders the account holds.                          *)
C5_GetOrderReturnsThatOrder ==
    (Done /\ call.op = "get_order" /\ call.out.kind = "return"
        /\ call.out.v.t = "frame") =>
            \A i \in DOMAIN call.out.v.rows :
                Lookup(call.out.v.rows[i].v, "id") = call.args.order_id

\* the broker's report of zero securities: "securities" is JSON null
ZeroSecurities(b) ==
    b.t = "dict" /\ HasKey(b.v, "securities") /\ Lookup(b.v, "securities") = None

C7_OneRequestNoRetry ==
    Started =>
        /\ Len(call.sent) <= 1
        /\ call.pc = "waiting" => Len(call.sent) = 1 /\ ~call.resp.received
        /\ call.resp.received => Done /\ Len(call.sent) = 1
        /\ (Answered /\ (~Is2xx(call.resp.status) \/ ~call.resp.json)) =>
               call.out \in {Raise("TradierApiError"), Raise("JSONDecodeError")}

C7_FailureSurfaced ==
    /\ Answered /\ call.op = "get_order" /\ call.resp.status = 500
    /\ call.out = Raise("TradierApiError") /\ Len(call.sent) = 1

\* the rows of a positions response, when it lists positions
PositionRows(b) == Lookup(Lookup(b.v, "positions").v, "position")
ListsPositions(b) ==
    /\ b.t = "dict" /\ HasKey(b.v, "positions")
    /\ Lookup(b.v, "positions").t = "dict"
    /\ HasKey(Lookup(b.v, "positions").v, "position")
    /\ PositionRows(b).t = "list"
\* what get_positions returns on body b with the given flags and no symbols
Filtered(b, equities, options) ==
    get_positions_rest([symbols |-> Bool(FALSE), equities |-> equities,
                        options |-> options], b).v.rows

(* C8: on every positions response, equities=True returns exactly the rows *)
(* with a symbol shorter than 5 characters, and every row is returned by   *)
(* exactly one of equities=True and options=True.                          *)
C8_FiltersPartitionRows ==
    (AnsweredJson /\ call.op = "get_positions" /\ ListsPositions(call.resp.body)
        /\ PositionRows(call.resp.body).v # <<>>) =>
        LET rows == PositionRows(call.resp.body).v
            eq == Filtered(call.resp.body, TRUE, FALSE)
            opt == Filtered(call.resp.body, FALSE, TRUE)
        IN  /\ \A i \in DOMAIN rows :
                   InList(rows[i], eq) <=> Len(SymbolOf(rows[i]).v) < 5
            /\ \A i \in DOMAIN rows : InList(rows[i], eq) # InList(rows[i], opt)
            /\ (call.args.symbols = Bool(FALSE) /\ call.args.equities) =>
                   call.out = Return(Frame(Columns(rows), eq))

(* C9: get_historical_quotes transmits the current date as 'end' when      *)
(* end_date is omitted, and when start_date is omitted it transmits as     *)
(* 'start' the Monday on or before the transmitted end: a Monday, not      *)
(* after the end, less than 7 days before it, and the end itself when the  *)
(* end is a Monday.                                                        *)
C9_DefaultDates ==
    (Started /\ call.op = "get_historical_quotes" /\ call.sent # <<>>) =>
        LET e == Strptime(Param("end"))
            s == Strptime(Param("start"))
            monday == Ymd2Ord(2024, 1, 1)
        IN  /\ ~Truthy(call.args.end_date) =>
                   /\ Param("end") = Str(Strftime(call.now))
                   /\ e = Return(Date(call.now))
            /\ Truthy(call.args.end_date) => Param("end") = call.args.end_date
            /\ ~Truthy(call.args.start_date) =>
                   /\ e.kind = "return" /\ s.kind = "return"
                   /\ (s.v.v - monday) % 7 = 0
                   /\ s.v.v <= e.v.v
                   /\ e.v.v - s.v.v < 7
                   /\ (e.v.v - monday) % 7 = 0 => Param("start") = Param("end")

C9_WednesdayDefaults ==
    /\ Started /\ call.op = "get_historical_quotes" /\ call.sent # <<>>
    /\ ~Truthy(call.args.end_date) /\ ~Truthy(call.args.start_date)
    /\ (call.now - Ymd2Ord(2024, 1, 1)) % 7 = 2
    /\ Param("end") = Str(Strftime(call.now))
    /\ Param("start") = Str(Strftime(call.now - 2))

(* C10: get_history accepts an activity_type that spells one of the twelve *)
(* values in any letter case: it raises no ValueError and transmits as     *)
(* 'type' that value in lower case; every 'type' it transmits is one of    *)
(* the twelve values.                                                      *)
C10_TypeAcceptedAndLowered ==
    (Started /\ call.op = "get_history") =>
        /\ (call.args.activity_type.t = "str"
              /\ TypesSpelled(call.args.activity_type.v) # {}) =>
                 /\ call.sent # <<>>
                 /\ call.out # Raise("ValueError")
                 /\ HasParam("type")
                 /\ \A i \in TypesSpelled(call.args.activity_type.v) :
                        Param("type") = Str(valid_activity_types[i])
        /\ (call.sent # <<>> /\ HasParam("type")) =>
                 /\ Param("type").t = "str"
                 /\ IsLowerText(Param("type").v)
                 /\ TypesSpelled(Param("type").v) # {}

C10_UpperCaseAccepted ==
    /\ Started /\ call.op = "get_history" /\ call.sent # <<>>
    /\ call.args.activity_type.t = "str"
    /\ ~IsLowerText(call.args.activity_type.v)
    /\ HasParam("type") /\ Param("type") # call.args.activity_type
    /\ EqIgnoreCase(Param("type").v, call.args.activity_type.v)

\* the default pair of headers of a session built with auth token tok
DefaultPair(tok) ==
    Dict(<< <<"Authorization", <<"Bearer ", tok>> >>,
            <<"Accept", <<"application/json">> >> >>)
\* the headers argument of the call: None for the operations that pass none
HeadersGiven ==
    IF call.op \in {"request", "send"} THEN call.args.headers ELSE None

(* C11 as stated: the headers sent are the default pair when the caller    *)
(* gives no override, and the caller's mapping whenever one is given, the  *)
(* empty mapping included.                                                 *)
C11_OverrideReplacesDefaults ==
    (Started /\ call.sent # <<>>) =>
        call.sent[1].headers =
            IF HeadersGiven = None
            THEN DefaultPair(session.account.AUTH_TOKEN)
            ELSE HeadersGiven

(* C11 amended: the headers sent are the default pair when the caller      *)
(* gives no override or an EMPTY mapping, and exactly the caller's mapping *)
(* when a non-empty one is given: it replaces the defaults, nothing is     *)
(* merged.                                                                 *)
C11_NonEmptyOverrideReplacesDefaults ==
    (Started /\ call.sent # <<>>) =>
        call.sent[1].headers =
            IF HeadersGiven = None \/ HeadersGiven = Dict(<<>>)
            THEN DefaultPair(session.account.AUTH_TOKEN)
            ELSE HeadersGiven

C11_OverrideWithoutAuthorization ==
    /\ Started /\ call.op = "request" /\ call.sent # <<>>
    /\ call.args.headers.t = "dict" /\ call.args.headers.v # <<>>
    /\ ~HasKey(call.args.headers.v, "Authorization")
    /\ call.sent[1].headers = call.args.headers
    /\ ~HasKey(call.sent[1].headers.v, "Authorization")

\* a row of a positions response that the call's filters keep: within the
\* symbols when a list is given, short under equities, and long under
\* options only when equities is not set
KeptByCall(row) ==
    /\ Truthy(call.args.symbols) => InList(SymbolOf(row), call.args.symbols.v)
    /\ call.args.equities => Len(SymbolOf(row).v) < 5
    /\ (call.args.options /\ ~call.args.equities) => Len(SymbolOf(row).v) > 5

(* C13: get_positions returns the rows of the response, in their order,    *)
(* that pass the symbols filter, then the equities filter, then the        *)
(* options filter, the options filter being skipped when equities is set:  *)
(* with both flags set the result is that of equities=True alone, not the  *)
(* empty intersection of the two length filters.                           *)
C13_EquitiesTakePrecedence ==
    (AnsweredJson /\ call.op = "get_positions" /\ ListsPositions(call.resp.body)
        /\ PositionRows(call.resp.body).v # <<>>) =>
        LET rows == PositionRows(call.resp.body).v IN
        /\ call.out = Return(Frame(Columns(rows), SelectSeq(rows, KeptByCall)))
        /\ (call.args.equities /\ call.args.options) =>
               call.out = get_positions_rest(
                              [call.args EXCEPT !.options = FALSE],
                              call.resp.body)

C13_BothFlagsKeepEquities ==
    /\ AnsweredJson /\ call.op = "get_positions"
    /\ call.args.equities /\ call.args.options /\ Truthy(call.args.symbols)
    /\ ListsPositions(call.resp.body)
    /\ Len(PositionRows(call.resp.body).v) = 2
    /\ call.out.kind = "return" /\ Len(call.out.v.rows) = 1
    /\ SymbolOf(call.out.v.rows[1]) = AAPL

---------------------------------------------------------------------------
(* C12: concurrent operations on one shared session                        *)

\* The calls of the two callers that share the session
Calls == {call, peer}

\* What the call (op, args, now) does up to its request when it is the only
\* call ever made on a session just constructed from (n, t, p)
AloneStart(op, args, now, n, t, p) ==
    LET A == NewAccount(n, t, p)
        Q == NewQuotes(n, t, p)
    IN CASE op = "request" ->
                Issue(GetRequest(A, args.endpoint, args.params, args.headers))
         [] op = "send" ->
                Issue(PostRequest(A, args.endpoint, args.data, args.headers))
         [] op = "get_user_profile" ->
                Issue(GetRequest(A, <<"v1", "user", "profile">>, None, None))
         [] op = "get_account_balance" ->
                Issue(GetRequest(A, <<"v1", "accounts", n, "balances">>, None, None))
         [] op = "get_gainloss" ->
                Issue(GetRequest(A, <<"v1", "accounts", n, "gainloss">>, None, None))
         [] op = "get_history" -> get_history_start(A, args)
         [] op = "get_order" -> get_order_start(A, args.order_id)
         [] op = "get_orders" -> get_orders_start(A, args.order_id)
         [] op = "get_positions" ->
                Issue(GetRequest(A, <<"v1", "accounts", n, "positions">>, None, None))
         [] op = "get_historical_quotes" -> get_historical_quotes_start(Q, args, now)
         [] op = "get_quote_day" ->
                Issue(GetRequest(Q, <<"v1", "markets", "quotes">>,
                                 get_quote_day_params(args), None))
         [] op = "get_timesales" ->
                Issue(GetRequest(Q, <<"v1", "markets", "timesales">>,
                                 get_timesales_params(args), None))
         [] op = "search_companies" -> search_companies_start(Q, args)

\* The requests the call c has issued are the one it would issue alone
RequestIsOwn(c, n, t, p) ==
    LET start == AloneStart(c.op, c.args, c.now, n, t, p) IN
    c.sent = IF start.kind = "request" THEN <<start.req>> ELSE <<>>

\* The session holds what its construction from its own account number,
\* token and flag put there, and every call begun has issued its own request
SessionAsConstructed ==
    LET n == session.account.ACCOUNT_NUMBER
        t == session.account.AUTH_TOKEN
        p == session.account.is_paper
    IN /\ session.account = NewAccount(n, t, p)
       /\ session.quotes = NewQuotes(n, t, p)
       /\ session.account.REQUESTS_HEADERS = DefaultPair(t)
       /\ \A c \in Calls : c.pc # "idle" => RequestIsOwn(c, n, t, p)

\* C12: in any interleaving of the calls of two callers on one shared
\* session, no step changes the session's account number, token, flag,
\* default headers or endpoint paths, and the URL, headers and parameters of
\* each call's request are those the call would send alone on the session as
\* constructed, whatever the other call (in flight or completed, with a
\* headers override or not) has done.
C12_SessionFixedRequestsOwn ==
    /\ []SessionAsConstructed
    /\ [][session' = session]_vars

\* C12 witness: the first caller's get_history is in flight with its own
\* parameters and the default headers while the second caller's request,
\* which passed a headers override, is in flight or completed
C12_OverrideBesideDefault ==
    /\ call.pc = "waiting" /\ call.op = "get_history"
    /\ call.sent[1].payload.v # <<>>
    /\ call.sent[1].headers = DefaultPair(session.account.AUTH_TOKEN)
    /\ peer.pc \in {"waiting", "done"} /\ peer.op = "request"
    /\ peer.args.headers.t = "dict" /\ peer.args.headers.v # <<>>
    /\ peer.sent[1].headers = peer.args.headers
    /\ peer.sent[1].headers # call.sent[1].headers

====
